---------------------------- MODULE Spec2Model ----------------------------
(***************************************************************************)
(* Swarm Vision backend (src/app.py): the process-wide game_data           *)
(* dictionary and the request handlers that read and write it.             *)
(*                                                                         *)
(* Representation.                                                         *)
(*  - Python strings are TLA+ strings; str(), zfill() and strip() are      *)
(*    computed character by character.                                     *)
(*  - A dict is a function; the empty dict, the empty list and None are    *)
(*    all the empty function <<>> (players = {} and current_game = None    *)
(*    live in different variables, so they are never confused).            *)
(*  - A percentage rounded to one decimal is held in tenths: 66.7 is 667.  *)
(*  - datetime.now() stamps and uuid4() identifiers are left out of the    *)
(*    records: no handler reads them back.                                 *)
(*  - A missing JSON field that the handler reads with data.get(k) is the  *)
(*    empty string: None and "" take the same branch of every test the     *)
(*    handlers make on them.                                               *)
(*  - response is the reply to the last request handled; an uncaught       *)
(*    Python exception is the reply with status 500.                       *)
(***************************************************************************)
EXTENDS Integers, Sequences, FiniteSets, TLC

VARIABLES admin_logged_in, game_active, game_ended, revealed, current_game,
          players, guesses, swarm_results, contribution_log,
          response, threads

game_vars == <<admin_logged_in, game_active, game_ended, revealed, current_game,
               players, guesses, swarm_results, contribution_log>>

vars == <<admin_logged_in, game_active, game_ended, revealed, current_game,
          players, guesses, swarm_results, contribution_log, response, threads>>

(***************************************************************************)
(* Bounds of the model.                                                    *)
(***************************************************************************)
MaxLog == 5

MaxRegistered == 7

MaxConcLog == 5

NumThreads == 2

(***************************************************************************)
(* Python values and library functions.                                    *)
(***************************************************************************)
None == <<>>

EmptyDict == <<>>

Digits == <<"0", "1", "2", "3", "4", "5", "6", "7", "8", "9">>

RECURSIVE str(_)
str(n) == IF n < 10 THEN Digits[n + 1] ELSE str(n \div 10) \o Digits[(n % 10) + 1]

RECURSIVE zfill(_, _)
zfill(s, width) == IF Len(s) >= width THEN s ELSE zfill("0" \o s, width)

RECURSIVE lstrip(_)
lstrip(s) ==
    IF Len(s) > 0 /\ SubSeq(s, 1, 1) = " " THEN lstrip(SubSeq(s, 2, Len(s))) ELSE s

RECURSIVE rstrip(_)
rstrip(s) ==
    IF Len(s) > 0 /\ SubSeq(s, Len(s), Len(s)) = " "
    THEN rstrip(SubSeq(s, 1, Len(s) - 1))
    ELSE s

strip(s) == rstrip(lstrip(s))

\* round1 cutting the second decimal off instead of rounding.
round1_truncated(num, den) == (num * 1000) \div den

\* round(num / den * 100, 1), in tenths; Python rounds a tie to the even digit.
round1(num, den) ==
    LET q == (num * 1000) \div den
        r == (num * 1000) % den
    IN  IF 2 * r > den THEN q + 1
        ELSE IF 2 * r < den THEN q
        ELSE IF q % 2 = 0 THEN q ELSE q + 1

DictSet(d, k, v) == [x \in (DOMAIN d) \cup {k} |-> IF x = k THEN v ELSE d[x]]

(***************************************************************************)
(* Module-level data of app.py.                                            *)
(***************************************************************************)
VALID_ROLL_NUMBERS == {str(roll) : roll \in 201..269} \cup {str(roll) : roll \in 431..436}

ADMIN_CREDENTIALS == [username |-> "admin", password |-> "swarm123"]

AVATARS == <<"bee", "robot", "arm", "ladybug", "butterfly", "spider">>

(***************************************************************************)
(* Request inputs.                                                         *)
(***************************************************************************)
Passwords == {"swarm123", "wrong"}

Answers == {"A", "B"}

Options == <<"A", "B">>

NameInputs == {"", " Ann "}

RollInputs == {"", "200", "201", " 269 "}

NodeInputs == {"", "Node_01", "Node_02"}

GuessInputs == {"", "A", "B"}

(***************************************************************************)
(* Replies.                                                                *)
(***************************************************************************)
Fail(op, status, message) ==
    [op |-> op, status |-> status, success |-> FALSE, message |-> message]

Ok(op, message) ==
    [op |-> op, status |-> 200, success |-> TRUE, message |-> message]

\* An uncaught exception: Flask answers 500 and the handler's earlier writes stay.
Crash(op, exception) ==
    [op |-> op, status |-> 500, success |-> FALSE, message |-> exception]

NoResponse == [op |-> "none", status |-> 0, success |-> FALSE, message |-> ""]

(***************************************************************************)
(* Helpers of app.py.                                                      *)
(***************************************************************************)
generate_node_id(ps) == "Node_" \o zfill(str(Cardinality(DOMAIN ps) + 1), 2)

\* avatar_for with the index taken after the insert instead of before it.
avatar_after_insert(ps) == AVATARS[((Cardinality(DOMAIN ps) + 1) % 6) + 1]

avatar_for(ps) == AVATARS[(Cardinality(DOMAIN ps) % 6) + 1]

vote_count(gs, option) == Cardinality({i \in 1..Len(gs) : gs[i].guess = option})

calculate_swarm_confidence(gs) ==
    IF gs = <<>> THEN EmptyDict
    ELSE [option \in {gs[i].guess : i \in 1..Len(gs)} |->
              round1(vote_count(gs, option), Len(gs))]

\* log_contribution numbering a record by the log's length before the append.
log_contribution_from_zero(log, node_id, action, impact) ==
    Append(log, [block_id |-> Len(log), node_id |-> node_id,
                 action |-> action, impact |-> impact])

log_contribution(log, node_id, action, impact) ==
    Append(log, [block_id |-> Len(log) + 1, node_id |-> node_id,
                 action |-> action, impact |-> impact])

credentials_ok(username, password) ==
    username = ADMIN_CREDENTIALS.username /\ password = ADMIN_CREDENTIALS.password

\* roll_in_use reading a key the player records do not have: never a match.
roll_in_use_wrong_key(ps, roll_number) == FALSE

roll_in_use(ps, roll_number) == \E k \in DOMAIN ps : ps[k].roll_number = roll_number

\* existing_guess comparing against a guess's value instead of its node_id.
existing_guess_wrong_field(gs, node_id) == \E i \in 1..Len(gs) : gs[i].guess = node_id

existing_guess(gs, node_id) == \E i \in 1..Len(gs) : gs[i].node_id = node_id

correct_guesses(gs, game) ==
    Cardinality({i \in 1..Len(gs) : gs[i].guess = game.correct_answer})

swarm_accuracy(gs, game) ==
    IF gs # <<>> THEN round1(correct_guesses(gs, game), Len(gs)) ELSE 0

individual_results(gs, game, ps) ==
    [i \in 1..Len(gs) |->
        [node_id |-> gs[i].node_id,
         player_name |-> ps[gs[i].node_id].name,
         roll_number |-> ps[gs[i].node_id].roll_number,
         guess |-> gs[i].guess,
         correct |-> (gs[i].guess = game.correct_answer)]]

individual_accuracies(gs, game, ps) ==
    [i \in 1..Len(gs) |->
        [node_id |-> gs[i].node_id,
         player_name |-> ps[gs[i].node_id].name,
         roll_number |-> ps[gs[i].node_id].roll_number,
         accuracy |-> IF gs[i].guess = game.correct_answer THEN 100 ELSE 0]]

\* The loops over guesses read current_game['correct_answer'] and
\* players[guess['node_id']] once per guess: TypeError / KeyError when missing.
results_loop_error(gs, game, ps) ==
    IF gs = <<>> THEN ""
    ELSE IF game = None THEN "TypeError"
    ELSE IF \E i \in 1..Len(gs) : gs[i].node_id \notin DOMAIN ps THEN "KeyError"
    ELSE ""

ThreadIds == 1..NumThreads

IdleThread == [pc |-> "idle", name |-> "", roll_number |-> "", node_id |-> "",
               guess |-> "", response |-> NoResponse]

(***************************************************************************)
(* Initial state: game_data as app.py builds it at import.                 *)
(***************************************************************************)
Init ==
    /\ admin_logged_in = FALSE
    /\ game_active = FALSE
    /\ game_ended = FALSE
    /\ revealed = FALSE
    /\ current_game = None
    /\ players = EmptyDict
    /\ guesses = <<>>
    /\ swarm_results = EmptyDict
    /\ contribution_log = <<>>
    /\ response = NoResponse
    /\ threads = [t \in ThreadIds |-> IdleThread]

(***************************************************************************)
(* Request handlers, each run from its first line to its return (requests  *)
(* served one at a time).                                                  *)
(***************************************************************************)
Reply(r) == response' = r /\ UNCHANGED threads

\* POST /admin/login
admin_login(username, password) ==
    /\ IF credentials_ok(username, password)
       THEN /\ admin_logged_in' = TRUE
            /\ Reply(Ok("admin_login", "Admin logged in successfully"))
       ELSE /\ UNCHANGED admin_logged_in
            /\ Reply(Fail("admin_login", 401, "Invalid credentials"))
    /\ UNCHANGED <<game_active, game_ended, revealed, current_game, players,
                   guesses, swarm_results, contribution_log>>

\* create_game without 'guesses': [] in its update.
create_game_keeps_guesses(options, correct_answer) ==
    IF ~admin_logged_in
    THEN /\ Reply(Fail("create_game", 401, "Admin not logged in"))
         /\ UNCHANGED game_vars
    ELSE /\ current_game' = [image |-> "placeholder.png", options |-> options,
                             correct_answer |-> correct_answer]
         /\ swarm_results' = EmptyDict
         /\ game_ended' = FALSE
         /\ revealed' = FALSE
         /\ contribution_log' = log_contribution(contribution_log, "ADMIN",
                                    "Created new game", "Game initialized")
         /\ Reply(Ok("create_game", "Game created successfully"))
         /\ UNCHANGED <<admin_logged_in, game_active, players, guesses>>

\* POST /admin/create_game (no image in the request: the placeholder is used)
create_game(options, correct_answer) ==
    IF ~admin_logged_in
    THEN /\ Reply(Fail("create_game", 401, "Admin not logged in"))
         /\ UNCHANGED game_vars
    ELSE /\ current_game' = [image |-> "placeholder.png", options |-> options,
                             correct_answer |-> correct_answer]
         /\ guesses' = <<>>
         /\ swarm_results' = EmptyDict
         /\ game_ended' = FALSE
         /\ revealed' = FALSE
         /\ contribution_log' = log_contribution(contribution_log, "ADMIN",
                                    "Created new game", "Game initialized")
         /\ Reply(Ok("create_game", "Game created successfully"))
         /\ UNCHANGED <<admin_logged_in, game_active, players>>

\* start_game that clears the ended flag when it re-activates the session.
start_game_clears_ended ==
    IF ~admin_logged_in
    THEN /\ Reply(Fail("start_game", 401, "Admin not logged in"))
         /\ UNCHANGED game_vars
    ELSE IF current_game = None
    THEN /\ Reply(Fail("start_game", 400, "No game created"))
         /\ UNCHANGED game_vars
    ELSE /\ game_active' = TRUE
         /\ game_ended' = FALSE
         /\ contribution_log' = log_contribution(contribution_log, "ADMIN",
                                    "Started game", "Game is now live")
         /\ Reply(Ok("start_game", "Game started"))
         /\ UNCHANGED <<admin_logged_in, revealed, current_game,
                        players, guesses, swarm_results>>

\* POST /start_game
start_game ==
    IF ~admin_logged_in
    THEN /\ Reply(Fail("start_game", 401, "Admin not logged in"))
         /\ UNCHANGED game_vars
    ELSE IF current_game = None
    THEN /\ Reply(Fail("start_game", 400, "No game created"))
         /\ UNCHANGED game_vars
    ELSE /\ game_active' = TRUE
         /\ contribution_log' = log_contribution(contribution_log, "ADMIN",
                                    "Started game", "Game is now live")
         /\ Reply(Ok("start_game", "Game started"))
         /\ UNCHANGED <<admin_logged_in, game_ended, revealed, current_game,
                        players, guesses, swarm_results>>

\* end_game without the admin_logged_in test.
end_game_unguarded ==
    /\ game_active' = FALSE
    /\ game_ended' = TRUE
    /\ swarm_results' = IF guesses # <<>>
                        THEN calculate_swarm_confidence(guesses)
                        ELSE swarm_results
    /\ contribution_log' = log_contribution(contribution_log, "ADMIN",
                               "Ended game", "Game ended, ready for reveal")
    /\ Reply(Ok("end_game", "Game ended"))
    /\ UNCHANGED <<admin_logged_in, revealed, current_game, players, guesses>>

\* POST /end_game
end_game ==
    IF ~admin_logged_in
    THEN /\ Reply(Fail("end_game", 401, "Admin not logged in"))
         /\ UNCHANGED game_vars
    ELSE /\ game_active' = FALSE
         /\ game_ended' = TRUE
         /\ swarm_results' = IF guesses # <<>>
                             THEN calculate_swarm_confidence(guesses)
                             ELSE swarm_results
         /\ contribution_log' = log_contribution(contribution_log, "ADMIN",
                                    "Ended game", "Game ended, ready for reveal")
         /\ Reply(Ok("end_game", "Game ended"))
         /\ UNCHANGED <<admin_logged_in, revealed, current_game, players, guesses>>

\* POST /reveal_answer
reveal_answer ==
    IF ~admin_logged_in
    THEN /\ Reply(Fail("reveal_answer", 401, "Admin not logged in"))
         /\ UNCHANGED game_vars
    ELSE IF ~game_ended
    THEN /\ Reply(Fail("reveal_answer", 400, "Game not ended yet"))
         /\ UNCHANGED game_vars
    ELSE IF results_loop_error(guesses, current_game, players) # ""
    THEN \* lines 174-188 raise before anything is written
         /\ Reply(Crash("reveal_answer",
                        results_loop_error(guesses, current_game, players)))
         /\ UNCHANGED game_vars
    ELSE /\ contribution_log' = log_contribution(contribution_log, "ADMIN",
                                    "Revealed answer", "Results and correct answer shown")
         /\ revealed' = TRUE
         /\ IF current_game = None
            THEN \* line 199 subscripts None after lines 190 and 193 have run
                 Reply(Crash("reveal_answer", "TypeError"))
            ELSE Reply([op |-> "reveal_answer", status |-> 200, success |-> TRUE,
                        individual_results |->
                            individual_results(guesses, current_game, players),
                        swarm_accuracy |-> swarm_accuracy(guesses, current_game),
                        correct_answer |-> current_game.correct_answer,
                        swarm_confidence |-> swarm_results,
                        total_participants |-> Len(guesses)])
         /\ UNCHANGED <<admin_logged_in, game_active, game_ended, current_game,
                        players, guesses, swarm_results>>

\* The first check of join_game that fails, as its message; "" when none does.
join_error(ps, name, roll_number) ==
    IF name = "" THEN "Name is required"
    ELSE IF roll_number = "" THEN "Roll number is required"
    ELSE IF roll_number \notin VALID_ROLL_NUMBERS
    THEN "Invalid roll number. Please enter a valid roll number (211-269 or 431-436)"
    ELSE IF roll_in_use(ps, roll_number) THEN "Roll number already in use"
    ELSE ""

new_player(ps, name, roll_number) ==
    [name |-> name, roll_number |-> roll_number, avatar |-> avatar_for(ps)]

join_action(name, roll_number) == "Joined as " \o name \o " (Roll: " \o roll_number \o ")"

join_reply(ps, node_id, roll_number) ==
    [op |-> "join_game", status |-> 200, success |-> TRUE, node_id |-> node_id,
     roll_number |-> roll_number, avatar |-> ps[node_id].avatar]

\* POST /join_game
join_game(name_in, roll_in) ==
    LET name == strip(name_in)
        roll_number == strip(roll_in)
        node_id == generate_node_id(players)
    IN  IF join_error(players, name, roll_number) # ""
        THEN /\ Reply(Fail("join_game", 400, join_error(players, name, roll_number)))
             /\ UNCHANGED game_vars
        ELSE /\ players' = DictSet(players, node_id, new_player(players, name, roll_number))
             /\ contribution_log' = log_contribution(contribution_log, node_id,
                                        join_action(name, roll_number),
                                        "New node added to swarm")
             /\ Reply(join_reply(players', node_id, roll_number))
             /\ UNCHANGED <<admin_logged_in, game_active, game_ended, revealed,
                            current_game, guesses, swarm_results>>

\* submit_error without the game_active test.
submit_error_unphased(active, ps, gs, node_id, guess) ==
    IF node_id = "" \/ guess = "" THEN "Node ID and guess required"
    ELSE IF node_id \notin DOMAIN ps THEN "Invalid node ID"
    ELSE IF \E i \in 1..Len(gs) : gs[i].node_id = node_id THEN "Already submitted"
    ELSE ""

\* The first check of submit_guess that fails, as its message; "" when none does.
submit_error(active, ps, gs, node_id, guess) ==
    IF ~active THEN "Game not active"
    ELSE IF node_id = "" \/ guess = "" THEN "Node ID and guess required"
    ELSE IF node_id \notin DOMAIN ps THEN "Invalid node ID"
    ELSE IF existing_guess(gs, node_id) THEN "Already submitted"
    ELSE ""

guess_entry(node_id, guess) == [node_id |-> node_id, guess |-> guess]

submit_reply(gs) ==
    [op |-> "submit_guess", status |-> 200, success |-> TRUE,
     message |-> "Guess submitted successfully",
     swarm_confidence |-> calculate_swarm_confidence(gs),
     total_guesses |-> Len(gs)]

\* POST /submit_guess
submit_guess(node_id, guess) ==
    IF submit_error(game_active, players, guesses, node_id, guess) # ""
    THEN /\ Reply(Fail("submit_guess", 400,
                       submit_error(game_active, players, guesses, node_id, guess)))
         /\ UNCHANGED game_vars
    ELSE /\ guesses' = Append(guesses, guess_entry(node_id, guess))
         /\ contribution_log' = log_contribution(contribution_log, node_id,
                                    "Submitted guess: " \o guess,
                                    "Contribution added to swarm")
         /\ Reply(submit_reply(guesses'))
         /\ UNCHANGED <<admin_logged_in, game_active, game_ended, revealed,
                        current_game, players, swarm_results>>

\* reset_game without 'guesses': [] in its update.
reset_game_keeps_guesses ==
    IF ~admin_logged_in
    THEN /\ Reply(Fail("reset_game", 401, "Admin not logged in"))
         /\ UNCHANGED game_vars
    ELSE /\ game_active' = FALSE
         /\ game_ended' = FALSE
         /\ current_game' = None
         /\ players' = EmptyDict
         /\ swarm_results' = EmptyDict
         /\ contribution_log' = <<>>
         /\ Reply(Ok("reset_game", "Game reset successfully"))
         /\ UNCHANGED <<admin_logged_in, revealed, guesses>>

\* POST /reset_game
reset_game ==
    IF ~admin_logged_in
    THEN /\ Reply(Fail("reset_game", 401, "Admin not logged in"))
         /\ UNCHANGED game_vars
    ELSE /\ game_active' = FALSE
         /\ game_ended' = FALSE
         /\ current_game' = None
         /\ players' = EmptyDict
         /\ guesses' = <<>>
         /\ swarm_results' = EmptyDict
         /\ contribution_log' = <<>>
         /\ Reply(Ok("reset_game", "Game reset successfully"))
         /\ UNCHANGED <<admin_logged_in, revealed>>

\* GET /get_game_status
get_game_status ==
    /\ Reply([op |-> "get_game_status", status |-> 200, success |-> TRUE,
              game_active |-> game_active, game_ended |-> game_ended,
              current_game |-> current_game,
              total_players |-> Cardinality(DOMAIN players),
              total_guesses |-> Len(guesses)])
    /\ UNCHANGED game_vars

\* get_swarm_results without the revealed test.
get_swarm_results_unrevealed ==
    /\ UNCHANGED game_vars
    /\ IF ~game_ended
       THEN Reply(Fail("get_swarm_results", 400, "Game not ended"))
       ELSE IF current_game = None
       THEN Reply(Crash("get_swarm_results", "TypeError"))
       ELSE Reply([op |-> "get_swarm_results", status |-> 200, success |-> TRUE,
                   swarm_confidence |-> swarm_results,
                   swarm_accuracy |-> swarm_accuracy(guesses, current_game),
                   correct_answer |-> current_game.correct_answer,
                   total_participants |-> Len(guesses)])

\* GET /get_swarm_results
get_swarm_results ==
    /\ UNCHANGED game_vars
    /\ IF ~game_ended
       THEN Reply(Fail("get_swarm_results", 400, "Game not ended"))
       ELSE IF ~revealed
       THEN Reply(Fail("get_swarm_results", 400, "Answer not revealed yet"))
       ELSE IF current_game = None
       THEN Reply(Crash("get_swarm_results", "TypeError"))
       ELSE Reply([op |-> "get_swarm_results", status |-> 200, success |-> TRUE,
                   swarm_confidence |-> swarm_results,
                   swarm_accuracy |-> swarm_accuracy(guesses, current_game),
                   correct_answer |-> current_game.correct_answer,
                   total_participants |-> Len(guesses)])

\* GET /admin/get_detailed_results
get_detailed_results ==
    /\ UNCHANGED game_vars
    /\ IF ~admin_logged_in
       THEN Reply(Fail("get_detailed_results", 401, "Admin not logged in"))
       ELSE IF ~game_ended
       THEN Reply(Fail("get_detailed_results", 400, "Game not ended"))
       ELSE IF ~revealed
       THEN Reply(Fail("get_detailed_results", 400, "Answer not revealed yet"))
       ELSE IF results_loop_error(guesses, current_game, players) # ""
       THEN Reply(Crash("get_detailed_results",
                        results_loop_error(guesses, current_game, players)))
       ELSE IF current_game = None
       THEN Reply(Crash("get_detailed_results", "TypeError"))
       ELSE Reply([op |-> "get_detailed_results", status |-> 200, success |-> TRUE,
                   swarm_confidence |-> swarm_results,
                   individual_results |->
                       individual_results(guesses, current_game, players),
                   swarm_accuracy |-> swarm_accuracy(guesses, current_game),
                   correct_answer |-> current_game.correct_answer,
                   total_participants |-> Len(guesses)])

\* GET /get_dashboard
get_dashboard ==
    /\ UNCHANGED game_vars
    /\ IF ~game_ended
       THEN Reply(Fail("get_dashboard", 400, "Game not ended"))
       ELSE IF results_loop_error(guesses, current_game, players) # ""
       THEN Reply(Crash("get_dashboard",
                        results_loop_error(guesses, current_game, players)))
       ELSE Reply([op |-> "get_dashboard", status |-> 200, success |-> TRUE,
                   individual_accuracies |->
                       individual_accuracies(guesses, current_game, players),
                   swarm_accuracy |-> swarm_accuracy(guesses, current_game),
                   contribution_log |-> contribution_log,
                   total_participants |-> Len(guesses),
                   swarm_confidence |-> swarm_results])

(***************************************************************************)
(* Requests served one at a time.  A request that would grow the activity  *)
(* log past MaxLog is not issued.                                          *)
(***************************************************************************)
LogBounded == Len(contribution_log') <= MaxLog

AdminLogin == \E password \in Passwords : admin_login("admin", password)

CreateGame == \E answer \in Answers : create_game(Options, answer) /\ LogBounded

StartGame == start_game /\ LogBounded

EndGame == end_game /\ LogBounded

RevealAnswer == reveal_answer /\ LogBounded

JoinGame == \E name \in NameInputs, roll \in RollInputs : join_game(name, roll) /\ LogBounded

SubmitGuess ==
    \E node_id \in NodeInputs, guess \in GuessInputs :
        submit_guess(node_id, guess) /\ LogBounded

ResetGame == reset_game

GetGameStatus == get_game_status

GetSwarmResults == get_swarm_results

GetDetailedResults == get_detailed_results

GetDashboard == get_dashboard

Next ==
    \/ AdminLogin
    \/ CreateGame
    \/ StartGame
    \/ EndGame
    \/ RevealAnswer
    \/ JoinGame
    \/ SubmitGuess
    \/ ResetGame
    \/ GetGameStatus
    \/ GetSwarmResults
    \/ GetDetailedResults
    \/ GetDashboard

Spec == Init /\ [][Next]_vars

(***************************************************************************)
(* Vocabulary of the properties, written without the handlers' helpers.    *)
(***************************************************************************)
HasGuess(node_id) == \E i \in 1..Len(guesses) : guesses[i].node_id = node_id

OneGuessPerNode ==
    \A i, j \in 1..Len(guesses) : guesses[i].node_id = guesses[j].node_id => i = j

RollRegistered(roll_id) == \E k \in DOMAIN players : players[k].roll_number = roll_id

AllowedRolls == {str(n) : n \in (201..269) \cup (431..436)}

DistinctRolls ==
    \A k1, k2 \in DOMAIN players :
        players[k1].roll_number = players[k2].roll_number => k1 = k2

SubmitFailed(message) == response = Fail("submit_guess", 400, message)

JoinFailed(message) == response = Fail("join_game", 400, message)

\* C1 (as amended): the ledger never holds two guesses of one node_id, and a
\* submit for a node_id that already has a guess fails and leaves the ledger
\* unchanged; the failure is 'Already submitted' when the session is active
\* and the guess value is not empty.
C1_OneGuessPerNode ==
    /\ []OneGuessPerNode
    /\ [][\A node_id \in NodeInputs, guess \in GuessInputs :
              (submit_guess(node_id, guess) /\ HasGuess(node_id)) =>
                  /\ ~response'.success
                  /\ guesses' = guesses
                  /\ (game_active /\ guess # "") => response' = Fail("submit_guess", 400, "Already submitted")]_vars

\* C1 as stated: every submit for a node_id that already has a guess fails
\* with 'Already submitted'.
C1_AsStated ==
    /\ []OneGuessPerNode
    /\ [][\A node_id \in NodeInputs, guess \in GuessInputs :
              (submit_guess(node_id, guess) /\ HasGuess(node_id)) =>
                  /\ response' = Fail("submit_guess", 400, "Already submitted")
                  /\ guesses' = guesses]_vars

\* C1 witness: a second submit of a node was answered 'Already submitted'.
C1_Witness == SubmitFailed("Already submitted") /\ Len(guesses) = 1 /\ game_active

\* C4: a submit while game_active is false fails with 'Game not active' for
\* every node_id and guess, changing neither ledger, cache nor log; the ledger
\* grows only in a step taken while game_active is true.
C4_NotActiveRejected ==
    /\ [][\A node_id \in NodeInputs, guess \in GuessInputs :
              (submit_guess(node_id, guess) /\ ~game_active) =>
                  /\ response' = Fail("submit_guess", 400, "Game not active")
                  /\ UNCHANGED <<guesses, swarm_results, contribution_log>>]_vars
    /\ [][Len(guesses') > Len(guesses) => game_active]_vars

\* C4 witness: a submit was refused as not active in an ended session that has
\* a registered participant and a guess.
C4_Witness ==
    /\ SubmitFailed("Game not active")
    /\ ~game_active /\ game_ended
    /\ Len(guesses) = 1 /\ DOMAIN players # {}

LastAdminAction ==
    LET admin == {i \in 1..Len(contribution_log) : contribution_log[i].node_id = "ADMIN"}
    IN  IF admin = {} THEN ""
        ELSE contribution_log[CHOOSE i \in admin : \A j \in admin : j <= i].action

\* C5: from a successful create until the next successful start (the log's
\* last admin record is the create) the session is not active and the ledger
\* is empty.
C5_CreateNotActive ==
    LastAdminAction = "Created new game" => (~game_active /\ guesses = <<>>)

\* C6: reveal before end fails with 'Game not ended yet' and leaves revealed
\* alone; reveal after end succeeds, sets revealed and returns one result per
\* ledger guess, in order, with correct = (guess = correct_answer).
C6_Reveal ==
    [][(reveal_answer /\ admin_logged_in) =>
          IF ~game_ended
          THEN /\ response' = Fail("reveal_answer", 400, "Game not ended yet")
               /\ revealed' = revealed
          ELSE /\ response'.success
               /\ revealed'
               /\ Len(response'.individual_results) = Len(guesses)
               /\ \A i \in 1..Len(guesses) :
                      /\ response'.individual_results[i].node_id = guesses[i].node_id
                      /\ response'.individual_results[i].guess = guesses[i].guess
                      /\ response'.individual_results[i].correct =
                             (guesses[i].guess = current_game.correct_answer)]_vars

InitialGameState ==
    /\ players = <<>> /\ guesses = <<>> /\ swarm_results = <<>>
    /\ contribution_log = <<>> /\ current_game = None
    /\ ~game_active /\ ~game_ended /\ ~revealed

\* C7: after a successful reset the game state is the initial one, and the
\* next successful register gets Node_01.
C7_Reset ==
    /\ []((response.op = "reset_game" /\ response.success) => InitialGameState)
    /\ [][(response.op = "reset_game" /\ response.success
           /\ response'.op = "join_game" /\ response'.success)
          => response'.node_id = "Node_01"]_vars

RegRollInputs == {str(200 + i) : i \in 0..MaxRegistered}

RegJoin == \E roll \in RegRollInputs : join_game(" Ann ", roll)

RegLogin == admin_login("admin", "swarm123")

RegReset == reset_game

NextReg == RegLogin \/ RegJoin \/ RegReset

SpecReg == Init /\ [][NextReg]_vars

ExpectedNodeId(k) == IF k < 10 THEN "Node_0" \o str(k) ELSE "Node_" \o str(k)

ExpectedAvatar(k) == AVATARS[((k - 1) % 6) + 1]

\* C9: the k-th successful register since the last reset (the k-th record of
\* the log, which holds nothing else here) gets node_id Node_<k, width 2> and
\* avatar (k-1) mod 6; the registry keys are exactly Node_01 .. Node_N, and a
\* failed register consumes no number.
C9_NodeIdSequence ==
    LET n == Cardinality(DOMAIN players)
    IN  /\ Len(contribution_log) = n
        /\ DOMAIN players = {ExpectedNodeId(k) : k \in 1..n}
        /\ \A k \in 1..n :
               /\ contribution_log[k].node_id = ExpectedNodeId(k)
               /\ players[ExpectedNodeId(k)].avatar = ExpectedAvatar(k)
        /\ (response.op = "join_game" /\ response.success) =>
               /\ n >= 1
               /\ response.node_id = ExpectedNodeId(n)
               /\ response.avatar = ExpectedAvatar(n)

\* C9 witness: the seventh registration got Node_07 and the first avatar again.
C9_Witness ==
    /\ response.op = "join_game" /\ response.success
    /\ response.node_id = "Node_07" /\ response.avatar = "bee"
    /\ Cardinality(DOMAIN players) = 7

(***************************************************************************)
(* Requests served concurrently.  app.run() serves each request on its own *)
(* thread and no handler takes a lock, so a thread switch can fall between *)
(* any two statements of join_game and submit_guess.  Each thread runs one *)
(* handler at a time, as the statement groups below; the admin's login,    *)
(* create, start and end run here without being preempted.                 *)
(***************************************************************************)
SetThread(t, th) == threads' = [threads EXCEPT ![t] = th]

InFlight == Cardinality({t \in ThreadIds : threads[t].pc # "idle"})

\* A request that logs is issued only while the log has room for it and for
\* the requests already being served.
ConcRoom == Len(contribution_log) + InFlight < MaxConcLog

\* join_game, lines 206-223: read and trim the inputs, run the checks.
join_check(t, name_in, roll_in) ==
    LET name == strip(name_in)
        roll_number == strip(roll_in)
    IN  /\ threads[t].pc = "idle"
        /\ IF join_error(players, name, roll_number) # ""
           THEN SetThread(t, [IdleThread EXCEPT
                    !.response = Fail("join_game", 400,
                                      join_error(players, name, roll_number))])
           ELSE /\ ConcRoom
                /\ SetThread(t, [IdleThread EXCEPT !.pc = "join_generate",
                                    !.name = name, !.roll_number = roll_number])
        /\ UNCHANGED <<game_vars, response>>

\* join_game, line 226: node_id = generate_node_id()
join_generate(t) ==
    /\ threads[t].pc = "join_generate"
    /\ SetThread(t, [threads[t] EXCEPT !.pc = "join_insert",
                        !.node_id = generate_node_id(players)])
    /\ UNCHANGED <<game_vars, response>>

\* join_game, lines 227-232: game_data['players'][node_id] = {...}
join_insert(t) ==
    /\ threads[t].pc = "join_insert"
    /\ players' = DictSet(players, threads[t].node_id,
                          new_player(players, threads[t].name, threads[t].roll_number))
    /\ SetThread(t, [threads[t] EXCEPT !.pc = "join_log"])
    /\ UNCHANGED <<admin_logged_in, game_active, game_ended, revealed, current_game,
                   guesses, swarm_results, contribution_log, response>>

\* join_game, lines 234-241: log the contribution and answer.
join_log(t) ==
    /\ threads[t].pc = "join_log"
    /\ contribution_log' = log_contribution(contribution_log, threads[t].node_id,
                               join_action(threads[t].name, threads[t].roll_number),
                               "New node added to swarm")
    /\ SetThread(t, [IdleThread EXCEPT
           !.response = IF threads[t].node_id \in DOMAIN players
                        THEN join_reply(players, threads[t].node_id,
                                        threads[t].roll_number)
                        ELSE Crash("join_game", "KeyError")])
    /\ UNCHANGED <<admin_logged_in, game_active, game_ended, revealed, current_game,
                   players, guesses, swarm_results, response>>

\* submit_guess, lines 245-261: read the inputs, run the checks.
submit_check(t, node_id, guess) ==
    /\ threads[t].pc = "idle"
    /\ IF submit_error(game_active, players, guesses, node_id, guess) # ""
       THEN SetThread(t, [IdleThread EXCEPT
                !.response = Fail("submit_guess", 400,
                                  submit_error(game_active, players, guesses,
                                               node_id, guess))])
       ELSE /\ ConcRoom
            /\ SetThread(t, [IdleThread EXCEPT !.pc = "submit_append",
                                !.node_id = node_id, !.guess = guess])
    /\ UNCHANGED <<game_vars, response>>

\* submit_guess, lines 264-269: game_data['guesses'].append(guess_entry)
submit_append(t) ==
    /\ threads[t].pc = "submit_append"
    /\ guesses' = Append(guesses, guess_entry(threads[t].node_id, threads[t].guess))
    /\ SetThread(t, [threads[t] EXCEPT !.pc = "submit_log"])
    /\ UNCHANGED <<admin_logged_in, game_active, game_ended, revealed, current_game,
                   players, swarm_results, contribution_log, response>>

\* submit_guess, lines 272-281: recompute the confidence, log and answer.
submit_log(t) ==
    /\ threads[t].pc = "submit_log"
    /\ contribution_log' = log_contribution(contribution_log, threads[t].node_id,
                               "Submitted guess: " \o threads[t].guess,
                               "Contribution added to swarm")
    /\ SetThread(t, [IdleThread EXCEPT !.response = submit_reply(guesses)])
    /\ UNCHANGED <<admin_logged_in, game_active, game_ended, revealed, current_game,
                   players, guesses, swarm_results, response>>

ConcNames == {"Ann"}

ConcRolls == {"201", "202"}

ConcNodes == {"Node_01", "Node_02"}

JoinCheck ==
    \E t \in ThreadIds, name \in ConcNames, roll \in ConcRolls : join_check(t, name, roll)

JoinGenerate == \E t \in ThreadIds : join_generate(t)

JoinInsert == \E t \in ThreadIds : join_insert(t)

JoinLog == \E t \in ThreadIds : join_log(t)

SubmitCheck ==
    \E t \in ThreadIds, node_id \in ConcNodes, guess \in Answers :
        submit_check(t, node_id, guess)

SubmitAppend == \E t \in ThreadIds : submit_append(t)

SubmitLog == \E t \in ThreadIds : submit_log(t)

ConcLogin == admin_login("admin", "swarm123")

ConcCreate == ConcRoom /\ create_game(Options, "B")

ConcStart == ConcRoom /\ start_game

ConcEnd == ConcRoom /\ end_game

NextConc ==
    \/ ConcLogin
    \/ ConcCreate
    \/ ConcStart
    \/ ConcEnd
    \/ JoinCheck
    \/ JoinGenerate
    \/ JoinInsert
    \/ JoinLog
    \/ SubmitCheck
    \/ SubmitAppend
    \/ SubmitLog

SpecConc == Init /\ [][NextConc]_vars

\* C2: with submits served concurrently, the check for an earlier guess and
\* the append act as one unit, so the ledger never holds two guesses of one
\* node_id.
C2_AtomicSubmit ==
    \A i, j \in 1..Len(guesses) : i # j => guesses[i].node_id # guesses[j].node_id

\* C3: with registers served concurrently, the duplicate-roll check and the
\* insert act as one unit, so no two registered participants share a roll_id.
C3_AtomicRegister ==
    \A k1, k2 \in DOMAIN players :
        k1 # k2 => players[k1].roll_number # players[k2].roll_number

\* C10: with registers for different unused roll_ids served concurrently, no
\* two of them compute the same node_id, and an insert never lands on a key
\* already in the registry (no participant's entry is overwritten).
C10_UniqueNodeIds ==
    [][\A t \in ThreadIds :
          (/\ join_insert(t)
           /\ ~RollRegistered(threads[t].roll_number)
           /\ \A u \in ThreadIds \ {t} :
                  threads[u].roll_number # threads[t].roll_number)
          => threads[t].node_id \notin DOMAIN players]_vars

\* C11: a call that does not complete successfully (a failure reply or an
\* uncaught error) leaves registry, ledger, question, flags, cache and log as
\* they were.
C11_FailedCallNoEffect == [][~response'.success => UNCHANGED game_vars]_vars

NotLoggedIn(op) == response' = Fail(op, 401, "Admin not logged in") /\ UNCHANGED game_vars

\* C12: while no admin login has succeeded, create, start, end, reveal, reset
\* and the detailed-results read each fail with 'Admin not logged in' and
\* change nothing; so until then the session is neither active, ended nor
\* revealed and holds no question.
C12_AdminOnly ==
    /\ [](~admin_logged_in =>
             (~game_active /\ ~game_ended /\ ~revealed /\ current_game = None))
    /\ [][~admin_logged_in =>
             /\ \A answer \in Answers :
                    create_game(Options, answer) => NotLoggedIn("create_game")
             /\ start_game => NotLoggedIn("start_game")
             /\ end_game => NotLoggedIn("end_game")
             /\ reveal_answer => NotLoggedIn("reveal_answer")
             /\ reset_game => NotLoggedIn("reset_game")
             /\ get_detailed_results => NotLoggedIn("get_detailed_results")]_vars

\* C12 witness: with participants registered and nobody logged in, an end was
\* refused.
C12_Witness ==
    /\ response = Fail("end_game", 401, "Admin not logged in")
    /\ ~admin_logged_in /\ DOMAIN players # {}

LogHas(action) == \E i \in 1..Len(contribution_log) : contribution_log[i].action = action

\* The log (emptied by every reset) holds a reveal after its last create.
RevealedSinceCreate ==
    \E r \in 1..Len(contribution_log) :
        /\ contribution_log[r].action = "Revealed answer"
        /\ \E c \in 1..(r - 1) : contribution_log[c].action = "Created new game"
        /\ \A c \in (r + 1)..Len(contribution_log) :
               contribution_log[c].action # "Created new game"

\* C13: participant results and admin detailed results succeed only when the
\* session is ended and revealed, the dashboard exactly when it is ended; a
\* successful participant-results read comes after a reveal that followed the
\* latest create and reset, and such a reveal (one made with a question
\* installed) is a successful one.
C13_ResultExposure ==
    /\ [][(get_swarm_results /\ response'.success) => (game_ended /\ revealed)]_vars
    /\ [][(get_detailed_results /\ response'.success) => (game_ended /\ revealed)]_vars
    /\ [][get_dashboard => (response'.success <=> game_ended)]_vars
    /\ []((response.op = "get_swarm_results" /\ response.success) => RevealedSinceCreate)
    /\ [](LogHas("Created new game") => current_game # None)
    /\ [][(reveal_answer /\ Len(contribution_log') > Len(contribution_log)
           /\ current_game # None) => response'.success]_vars

\* C13 witness: a participant read the results of a revealed session.
C13_Witness ==
    /\ response.op = "get_swarm_results" /\ response.success
    /\ game_ended /\ revealed

\* C13 witness of the asymmetry: the dashboard answered an ended session that
\* is not revealed.
C13_DashboardBeforeReveal ==
    /\ response.op = "get_dashboard" /\ response.success
    /\ game_ended /\ ~revealed

(***************************************************************************)
(* The aggregation on ledgers of up to MaxAggPlayers guesses.  The run     *)
(* starts in a session the admin has created and started with n            *)
(* participants registered (login, create, n registers, start); then come  *)
(* submits, end, reveal, the participant read, and direct calls of         *)
(* calculate_swarm_confidence on the ledger (the way to its empty case,    *)
(* which end_game and submit_guess never take).                            *)
(***************************************************************************)
MaxAggPlayers == 3

AggValues == {"A", "B", "C"}

RECURSIVE Registered(_)
Registered(n) ==
    IF n = 0 THEN EmptyDict
    ELSE LET ps == Registered(n - 1)
         IN  DictSet(ps, generate_node_id(ps), new_player(ps, "Ann", str(200 + n)))

RECURSIVE RegisteredLog(_)
RegisteredLog(n) ==
    IF n = 0
    THEN log_contribution(<<>>, "ADMIN", "Created new game", "Game initialized")
    ELSE log_contribution(RegisteredLog(n - 1), generate_node_id(Registered(n - 1)),
                          join_action("Ann", str(200 + n)), "New node added to swarm")

InitAgg ==
    \E n \in 0..MaxAggPlayers, answer \in Answers :
        /\ admin_logged_in = TRUE
        /\ game_active = TRUE
        /\ game_ended = FALSE
        /\ revealed = FALSE
        /\ current_game = [image |-> "placeholder.png", options |-> Options,
                           correct_answer |-> answer]
        /\ players = Registered(n)
        /\ guesses = <<>>
        /\ swarm_results = EmptyDict
        /\ contribution_log = log_contribution(RegisteredLog(n), "ADMIN",
                                  "Started game", "Game is now live")
        /\ response = Ok("start_game", "Game started")
        /\ threads = [t \in ThreadIds |-> IdleThread]

\* Room in the log for one submit per participant, an end and a reveal.
AggLogBounded == Len(contribution_log') <= 2 * Cardinality(DOMAIN players) + 4

AggSubmit ==
    \E node_id \in DOMAIN players, guess \in AggValues :
        submit_guess(node_id, guess) /\ AggLogBounded

AggEnd == end_game /\ AggLogBounded

AggReveal == reveal_answer /\ AggLogBounded

AggResults == get_swarm_results

\* calculate_swarm_confidence(game_data['guesses']) called on its own.
AggConfidence ==
    /\ Reply([op |-> "calculate_swarm_confidence", status |-> 200, success |-> TRUE,
              result |-> calculate_swarm_confidence(guesses)])
    /\ UNCHANGED game_vars

NextAgg == AggSubmit \/ AggEnd \/ AggReveal \/ AggResults \/ AggConfidence

SpecAgg == InitAgg /\ [][NextAgg]_vars

Votes(value) == Cardinality({i \in 1..Len(guesses) : guesses[i].guess = value})

GuessValues == [i \in 1..Len(guesses) |-> guesses[i].guess]

\* tenths is count/total*100 rounded to one decimal (a tie goes to the even digit).
IsRounded(tenths, count, total) ==
    LET d == tenths * total - 1000 * count
        a == IF d < 0 THEN -d ELSE d
    IN  2 * a < total \/ (2 * a = total /\ tenths % 2 = 0)

ConfidenceOfLedger(conf) ==
    /\ DOMAIN conf = {guesses[i].guess : i \in 1..Len(guesses)}
    /\ \A value \in DOMAIN conf : IsRounded(conf[value], Votes(value), Len(guesses))
    /\ GuessValues = <<"A", "A", "B">> => conf = [value \in {"A", "B"} |->
                                                   IF value = "A" THEN 667 ELSE 333]

AccuracyOfLedger(acc) ==
    /\ IF guesses = <<>> THEN acc = 0
       ELSE IsRounded(acc, Votes(current_game.correct_answer), Len(guesses))
    /\ (GuessValues = <<"A", "A", "B">> /\ current_game.correct_answer = "A") => acc = 667

\* C14: confidence maps exactly the distinct guessed values, each to
\* round(count/total*100, 1) ([A, A, B] gives A: 66.7, B: 33.3; no guesses give
\* the empty mapping); accuracy is round(matching/total*100, 1) ([A, A, B]
\* against A gives 66.7) and 0 without guesses; computing them for a reply
\* changes neither ledger nor session.
C14_Aggregation ==
    /\ [](/\ response.op = "calculate_swarm_confidence" =>
                /\ ConfidenceOfLedger(response.result)
                /\ guesses = <<>> => response.result = <<>>
          /\ (response.op = "submit_guess" /\ response.success) =>
                ConfidenceOfLedger(response.swarm_confidence)
          /\ (response.op \in {"reveal_answer", "get_swarm_results"} /\ response.success) =>
                AccuracyOfLedger(response.swarm_accuracy))
    /\ [][response'.op \in {"calculate_swarm_confidence", "get_swarm_results"} =>
             UNCHANGED game_vars]_vars
    /\ [][response'.op = "reveal_answer" =>
             UNCHANGED <<guesses, current_game, players, game_active, game_ended>>]_vars

\* C14 witness: the ledger [A, A, B] was revealed against the answer A with
\* accuracy 66.7.
C14_Witness ==
    /\ response.op = "reveal_answer" /\ response.success
    /\ GuessValues = <<"A", "A", "B">> /\ current_game.correct_answer = "A"
    /\ response.swarm_accuracy = 667
    /\ response.swarm_confidence = [value \in {"A", "B"} |-> IF value = "A" THEN 667 ELSE 333]

\* C14 witness of the empty case: the confidence of an empty ledger was asked.
C14_EmptyWitness ==
    response.op = "calculate_swarm_confidence" /\ guesses = <<>> /\ response.result = <<>>

LoggingOps == {"create_game", "start_game", "end_game", "reveal_answer",
               "join_game", "submit_guess"}

IsPrefix(s, t) == Len(s) <= Len(t) /\ SubSeq(t, 1, Len(s)) = s

\* C15: the i-th log record has block_id i; each successful create, start,
\* end, reveal, register and submit appends exactly one record; no step other
\* than a reset alters or removes a record, and a step that shortens the log
\* is a reset that empties it.
C15_ActivityLog ==
    /\ [](\A i \in 1..Len(contribution_log) : contribution_log[i].block_id = i)
    /\ [][(response'.op \in LoggingOps /\ response'.success) =>
             Len(contribution_log') = Len(contribution_log) + 1]_vars
    /\ [][\/ IsPrefix(contribution_log, contribution_log')
          \/ (response'.op = "reset_game" /\ response'.success
              /\ contribution_log' = <<>>)]_vars

\* C15 witness: a log of five records, the last one a submit's.
C15_Witness ==
    /\ Len(contribution_log) = 5
    /\ response.op = "submit_guess" /\ response.success
    /\ contribution_log[5].block_id = 5
    /\ contribution_log[5].action = "Submitted guess: " \o guesses[Len(guesses)].guess

\* C16: every guess in the ledger has a node_id that is a key of the registry,
\* and no reply is a KeyError from looking a guess's participant up.
C16_GuessesReferToPlayers ==
    /\ \A i \in 1..Len(guesses) : guesses[i].node_id \in DOMAIN players
    /\ ~(response.status = 500 /\ response.message = "KeyError")

\* C16 witness: the dashboard listed the participant of a guess.
C16_Witness ==
    /\ response.op = "get_dashboard" /\ response.success
    /\ Len(response.individual_accuracies) = 1
    /\ response.individual_accuracies[1].roll_number = players[guesses[1].node_id].roll_number

-----------------------------------------------------------------------------
\* Several rounds in one session: a question is created, played, ended, and
\* the session is started or created again.  The admin is the only client that
\* logs in and two participants play.

MaxRoundLog == 6

RoundRolls == {"201", "202"}

RoundNodes == {"Node_01", "Node_02"}

RoundLogBounded == Len(contribution_log') <= MaxRoundLog

RoundLogin == admin_login("admin", "swarm123")

RoundCreate == \E answer \in Answers : create_game(Options, answer) /\ RoundLogBounded

RoundStart == start_game /\ RoundLogBounded

RoundEnd == end_game /\ RoundLogBounded

RoundReveal == reveal_answer /\ RoundLogBounded

RoundJoin == \E roll \in RoundRolls : join_game(" Ann ", roll) /\ RoundLogBounded

RoundSubmit ==
    \E node_id \in RoundNodes, guess \in Answers :
        submit_guess(node_id, guess) /\ RoundLogBounded

RoundResults == get_swarm_results

RoundDetailed == get_detailed_results

NextRound ==
    \/ RoundLogin \/ RoundCreate \/ RoundStart \/ RoundEnd \/ RoundReveal
    \/ RoundJoin \/ RoundSubmit \/ RoundResults \/ RoundDetailed

SpecRound == Init /\ [][NextRound]_vars

\* The last 'Created new game' record of the log.
LastCreate ==
    CHOOSE c \in 1..Len(contribution_log) :
        /\ contribution_log[c].action = "Created new game"
        /\ \A d \in (c + 1)..Len(contribution_log) :
               contribution_log[d].action # "Created new game"

\* node_id joined before the last create.
JoinedBeforeCreate(node_id) ==
    /\ LogHas("Created new game")
    /\ \E j \in 1..(LastCreate - 1) :
           /\ contribution_log[j].node_id = node_id
           /\ contribution_log[j].impact = "New node added to swarm"

\* C17: a successful create empties the ledger and the cache, clears revealed
\* and ended, installs the question it was given, leaves the registry as it
\* was and adds exactly the 'Created new game' record to the log; a participant
\* who joined before the create is accepted when the session is active and
\* the participant has not guessed for the new question.
C17_CreateFrame ==
    /\ [][(response'.op = "create_game" /\ response'.success) =>
             /\ guesses' = <<>>
             /\ swarm_results' = <<>>
             /\ ~revealed' /\ ~game_ended'
             /\ players' = players
             /\ Len(contribution_log') = Len(contribution_log) + 1
             /\ SubSeq(contribution_log', 1, Len(contribution_log)) = contribution_log
             /\ contribution_log'[Len(contribution_log')].action = "Created new game"]_vars
    /\ [][\A answer \in Answers :
             (admin_logged_in /\ create_game(Options, answer)) =>
                 /\ response'.op = "create_game" /\ response'.success
                 /\ current_game'.options = Options
                 /\ current_game'.correct_answer = answer]_vars
    /\ [][\A node_id \in RoundNodes, guess \in Answers :
             (/\ submit_guess(node_id, guess)
              /\ JoinedBeforeCreate(node_id)
              /\ game_active /\ ~HasGuess(node_id)) => response'.success]_vars

\* C17 witness: a question was created over a session that had a guess in the
\* ledger and a confidence in the cache, with a participant registered.
C17_Witness ==
    /\ response.op = "create_game" /\ response.success
    /\ Len(contribution_log) = 6
    /\ contribution_log[4].action \in {"Submitted guess: A", "Submitted guess: B"}
    /\ contribution_log[5].action = "Ended game"
    /\ DOMAIN players = {"Node_01"}
    /\ guesses = <<>> /\ swarm_results = <<>>

\* A participant who joined before the last create has guessed after it.
C17_SubmitAfterCreate ==
    /\ response.op = "submit_guess" /\ response.success
    /\ JoinedBeforeCreate(guesses[Len(guesses)].node_id)

\* C18: a start by the logged-in admin succeeds exactly when a question is
\* installed, whatever the phase, and otherwise fails with 'No game created';
\* a successful start activates the session and leaves the ended flag as it
\* was; in a session that is both active and ended a registered participant
\* without a guess is accepted.
C18_Start ==
    /\ [][(response'.op = "start_game" /\ admin_logged_in) =>
             /\ response'.success <=> current_game # None
             /\ ~response'.success =>
                    /\ response' = Fail("start_game", 400, "No game created")
                    /\ UNCHANGED game_vars
             /\ response'.success =>
                    /\ game_active'
                    /\ game_ended' = game_ended
                    /\ UNCHANGED <<current_game, guesses, players, revealed>>]_vars
    /\ [][\A node_id \in NodeInputs, guess \in Answers :
             (/\ submit_guess(node_id, guess)
              /\ game_active /\ game_ended
              /\ node_id \in DOMAIN players /\ ~HasGuess(node_id)) =>
                 /\ response'.success
                 /\ guesses' = Append(guesses, [node_id |-> node_id, guess |-> guess])]_vars

\* C18 witness: after an end and a start the session is active and ended, and
\* a guess was accepted in it.
C18_Witness ==
    /\ game_active /\ game_ended
    /\ response.op = "submit_guess" /\ response.success
    /\ \E e \in 1..Len(contribution_log) :
           /\ contribution_log[e].action = "Ended game"
           /\ e + 2 = Len(contribution_log)
           /\ contribution_log[e + 1].action = "Started game"

\* C19: whenever a reveal or a results read succeeds, the swarm_confidence of
\* the reply is the confidence of the ledger as it is then, and the
\* total_participants and swarm_accuracy of the reply are those of the same
\* ledger.
C19_ConfidenceFresh ==
    (/\ response.op \in {"reveal_answer", "get_swarm_results", "get_detailed_results"}
     /\ response.success) =>
        /\ ConfidenceOfLedger(response.swarm_confidence)
        /\ response.total_participants = Len(guesses)
        /\ AccuracyOfLedger(response.swarm_accuracy)

\* C20: whenever the session is ended a question is installed, revealed holds
\* only while the session is ended, and no handler subscripts a missing
\* question.
C20_EndedHasQuestion ==
    /\ game_ended => current_game # None
    /\ revealed => game_ended
    /\ ~(response.status = 500 /\ response.message = "TypeError")

\* The first part of C20 alone.
C20_EndedOnly == game_ended => current_game # None

\* The second part of C20 alone.
C20_RevealedOnly == revealed => game_ended

\* The last part of C20 alone.
C20_NoTypeError == ~(response.status = 500 /\ response.message = "TypeError")

=============================================================================
